---- MODULE Spec2Model ----
(***************************************************************************)
(* Model of onedocker_runner.py: the launcher that fetches a packaged      *)
(* executable, makes it runnable and runs it as a supervised child.        *)
(*                                                                         *)
(* A Python str is a sequence of one-character strings, so that split,     *)
(* upper and concatenation are computed character by character.  Python's  *)
(* None is the value None where a str is expected and the empty sequence   *)
(* where an int is expected (an int n is then <<n>>).                      *)
(***************************************************************************)
EXTENDS Integers, Sequences, FiniteSets, TLC

\* ------------------------------------------------------------------ bounds
\* longest package name enumerated for _parse_package_name
MaxLen == 5
\* largest configured timeout, in seconds
MaxTimeout == 2
\* most SIGINT deliveries to the launcher in one invocation
MaxInterrupts == 2
\* most bytes the system sends and receives during one invocation
MaxNetBytes == 3

\* ----------------------------------------------------------------- strings
None == <<"<None>">>
IntNone == <<>>
Slash == "/"

LowerCase == <<"a","b","c","d","e","f","g","h","i","j","k","l","m",
               "n","o","p","q","r","s","t","u","v","w","x","y","z">>
UpperCase == <<"A","B","C","D","E","F","G","H","I","J","K","L","M",
               "N","O","P","Q","R","S","T","U","V","W","X","Y","Z">>

\* str.upper on one character
UpperChar(c) ==
    IF \E i \in 1..Len(LowerCase) : LowerCase[i] = c
    THEN UpperCase[CHOOSE i \in 1..Len(LowerCase) : LowerCase[i] = c]
    ELSE c

\* str.upper
Upper(s) == [i \in 1..Len(s) |-> UpperChar(s[i])]

\* the truth value Python gives an Optional[str]
Truthy(v) == v # None /\ v # <<>>

\* str.split("/"): the pieces between the separators, empty pieces kept
RECURSIVE Split(_)
Split(s) ==
    IF \A i \in 1..Len(s) : s[i] # Slash
    THEN <<s>>
    ELSE LET i == CHOOSE j \in 1..Len(s) :
                      s[j] = Slash /\ \A k \in 1..(j - 1) : s[k] # Slash
         IN  <<SubSeq(s, 1, i - 1)>> \o Split(SubSeq(s, i + 1, Len(s)))

\* DEFAULT_REPOSITORY_PATH = "https://one-docker-repository.s3.us-west-1.amazonaws.com/"
DEFAULT_REPOSITORY_PATH ==
    <<"h","t","t","p","s",":","/","/","o","n","e","-","d","o","c","k","e","r",
      "-","r","e","p","o","s","i","t","o","r","y",".","s","3",".","u","s","-",
      "w","e","s","t","-","1",".","a","m","a","z","o","n","a","w","s",".","c",
      "o","m","/">>

\* DEFAULT_EXE_FOLDER = "/root/one_docker/package/"
DEFAULT_EXE_FOLDER ==
    <<"/","r","o","o","t","/","o","n","e","_","d","o","c","k","e","r","/",
      "p","a","c","k","a","g","e","/">>

\* the sentinel "LOCAL" that run compares repository_path.upper() with
LOCAL_REPOSITORY == <<"L","O","C","A","L">>

\* -------------------------------------------------------- _parse_package_name
\* a mutant: the name is cut at the first "/" only, the rest is exe_name
parse_package_name_rest(package_name) ==
    LET parts == Split(package_name)
    IN  IF Len(parts) < 2
        THEN [exc |-> "IndexError", value |-> <<>>]
        ELSE [exc |-> "",
              value |-> <<parts[1],
                          SubSeq(package_name, Len(parts[1]) + 2,
                                 Len(package_name))>>]

\* a mutant: a name without "/" is taken as an executable without a team
parse_package_name_lenient(package_name) ==
    LET parts == Split(package_name)
    IN  IF Len(parts) < 2
        THEN [exc |-> "", value |-> <<<<>>, parts[1]>>]
        ELSE [exc |-> "", value |-> <<parts[1], parts[2]>>]

\* package_name.split("/")[0], package_name.split("/")[1]; the second index
\* is out of range when there is no "/"
_parse_package_name(package_name) ==
    LET parts == Split(package_name)
    IN  IF Len(parts) < 2
        THEN [exc |-> "IndexError", value |-> <<>>]
        ELSE [exc |-> "", value |-> <<parts[1], parts[2]>>]

\* --------------------------------------------------------------- _read_config
\* os.getenv(env_var) on the environment environ
getenv(environ, env_var) == environ[env_var]

\* a mutant: the environment variable is consulted before the argument
read_config_env_first(environ, config_name, argument, env_var, default_val) ==
    IF Truthy(getenv(environ, env_var))
    THEN [ret |-> getenv(environ, env_var),
          log |-> <<[key |-> config_name, source |-> "environment variables"]>>]
    ELSE IF Truthy(argument)
    THEN [ret |-> argument,
          log |-> <<[key |-> config_name, source |-> "program arguments"]>>]
    ELSE [ret |-> default_val,
          log |-> <<[key |-> config_name, source |-> "default value"]>>]

\* the value returned and the lines logged
_read_config(environ, config_name, argument, env_var, default_val) ==
    IF Truthy(argument)
    THEN [ret |-> argument,
          log |-> <<[key |-> config_name, source |-> "program arguments"]>>]
    ELSE IF Truthy(getenv(environ, env_var))
    THEN [ret |-> getenv(environ, env_var),
          log |-> <<[key |-> config_name, source |-> "environment variables"]>>]
    ELSE [ret |-> default_val,
          log |-> <<[key |-> config_name, source |-> "default value"]>>]

\* ---------------------------------------------------------------------- state
VARIABLES
    call,             \* the call of a helper function under test, if any
    repository_path,  \* run's arguments
    exe_path,
    package_name,
    cmd_arg,          \* the value of cmd that run was called with
    timeout,          \* IntNone, or <<seconds>>
    pc,               \* the statement of run that executes next
    cmd,              \* run's local cmd, reassigned in LOCAL mode
    exe_name,         \* run's local exe_name
    return_code,      \* run's local return_code, IntNone until assigned
    exc,              \* the exception that is propagating, "" if none
    copies,           \* the calls of S3StorageService.copy made so far
    chmods,           \* the chmod commands run so far, with their exit status
    popens,           \* the commands launched with subprocess.Popen so far
    log,              \* the lines written to logger
    sigint_handler,   \* the disposition of SIGINT in the launcher
    interrupts,       \* how many SIGINT the launcher has received
    sigint_waiting,   \* a SIGINT arrived inside proc.communicate
    sigint_running,   \* a SIGINT arrived with handler installed and the
                      \* child running
    timed_out,        \* proc.communicate raised TimeoutExpired
    elapsed,          \* seconds spent in proc.communicate
    child,            \* "none", "running", "zombie" (exited), "reaped"
    child_code,       \* the child's returncode once it has exited
    group_others,     \* the child's process group has other live members
    term_child,       \* SIGTERM was sent to the child by proc.terminate
    term_group,       \* SIGTERM was sent to the process group by os.killpg
    net,              \* the system's counters <<bytes_sent, bytes_recv>>
    net_start,        \* run's local net_start, <<>> until assigned
    net_end,          \* run's local net_end, <<>> until assigned
    status            \* the launcher's exit status, IntNone while it runs

inputs == <<repository_path, exe_path, package_name, cmd_arg, timeout>>
locals == <<cmd, exe_name, return_code>>
effects == <<copies, chmods, popens>>
signals == <<sigint_handler, interrupts, sigint_waiting, sigint_running>>
process == <<child, child_code, group_others, term_child, term_group>>
waiting == <<timed_out, elapsed>>
network == <<net, net_start, net_end>>
vars == <<call, inputs, pc, locals, exc, effects, log, signals, process,
          waiting, network, status>>

\* ------------------------------------------------------------- input values
\* "https://repo.example.com/"
RepoExample ==
    <<"h","t","t","p","s",":","/","/","r","e","p","o",".","e","x","a","m",
      "p","l","e",".","c","o","m","/">>
LowerLocal == <<"l","o","c","a","l">>
RepositoryPaths ==
    {LOCAL_REPOSITORY, LowerLocal, RepoExample, DEFAULT_REPOSITORY_PATH}

\* "/opt/bin"
OptBin == <<"/","o","p","t","/","b","i","n">>
ExePaths == {OptBin, DEFAULT_EXE_FOLDER}

\* "teamA/toolB", "t/x", "a/b/c" and "tool" (no separator)
TeamAToolB == <<"t","e","a","m","A","/","t","o","o","l","B">>
PackageNames ==
    {TeamAToolB, <<"t","/","x">>, <<"a","/","b","/","c">>, <<"t","o","o","l">>}

\* "./myprog --x"
MyProg == <<".","/","m","y","p","r","o","g"," ","-","-","x">>
Cmds == {MyProg, <<"x">>}

Timeouts == {IntNone} \cup {<<n>> : n \in 1..MaxTimeout}

\* the exit statuses a child may exit with by itself
ExitCodes == {0, 1, 7}

\* every str of at most n characters of A
StringsUpTo(A, n) == UNION {[1..k -> A] : k \in 0..n}
ParseAlphabet == {"a", "b", "c", Slash}

\* the names of the environment variables of .env
EnvNames == {"ONEDOCKER_EXE_PATH", "ONEDOCKER_REPOSITORY_PATH"}
ConfigNames == {"repository_path", "exe_path"}
ConfigStrings == {<<>>, <<"A">>, <<"E">>, <<"D">>}

\* -------------------------------------------------------------------- Init
\* run is called with (rp, ep, pn, c, t) and is at statement p
RunState(rp, ep, pn, c, t, p) ==
    /\ repository_path = rp
    /\ exe_path = ep
    /\ package_name = pn
    /\ cmd_arg = c
    /\ timeout = t
    /\ pc = p
    /\ cmd = c
    /\ exe_name = None
    /\ return_code = IntNone
    /\ exc = ""
    /\ copies = <<>>
    /\ chmods = <<>>
    /\ popens = <<>>
    /\ log = <<>>
    /\ sigint_handler = "default_int_handler"
    /\ interrupts = 0
    /\ sigint_waiting = FALSE
    /\ sigint_running = FALSE
    /\ timed_out = FALSE
    /\ elapsed = 0
    /\ child = "none"
    /\ child_code = IntNone
    /\ group_others = FALSE
    /\ term_child = FALSE
    /\ term_group = FALSE
    /\ net = <<0, 0>>
    /\ net_start = <<>>
    /\ net_end = <<>>
    /\ status = IntNone

\* run has not been called
NotRunning ==
    RunState(LOCAL_REPOSITORY, DEFAULT_EXE_FOLDER, TeamAToolB, MyProg,
             IntNone, "idle")

Init ==
    /\ call = [fn |-> "run"]
    /\ \E rp \in RepositoryPaths, ep \in ExePaths, pn \in PackageNames,
          c \in Cmds, t \in Timeouts :
          RunState(rp, ep, pn, c, t, "start")

\* ---------------------------------------- the helper functions, called alone
InitParse ==
    /\ \E s \in StringsUpTo(ParseAlphabet, MaxLen) :
          call = [fn |-> "_parse_package_name", package_name |-> s,
                  returned |-> FALSE, result |-> [exc |-> "", value |-> <<>>]]
    /\ NotRunning

CallParse ==
    /\ call.fn = "_parse_package_name"
    /\ ~call.returned
    /\ call' = [call EXCEPT !.returned = TRUE,
                            !.result = _parse_package_name(call.package_name)]
    /\ UNCHANGED <<network, inputs, pc, locals, exc, effects, log, signals, process,
                   waiting, status>>

SpecParse == InitParse /\ [][CallParse]_vars

InitConfig ==
    /\ \E environ \in [EnvNames -> ConfigStrings \cup {None}],
          config_name \in ConfigNames,
          argument \in ConfigStrings \cup {None},
          env_var \in EnvNames,
          default_val \in ConfigStrings :
          call = [fn |-> "_read_config", environ |-> environ,
                  config_name |-> config_name, argument |-> argument,
                  env_var |-> env_var, default_val |-> default_val,
                  returned |-> FALSE, result |-> None, logged |-> <<>>]
    /\ NotRunning

CallReadConfig ==
    /\ call.fn = "_read_config"
    /\ ~call.returned
    /\ LET r == _read_config(call.environ, call.config_name, call.argument,
                             call.env_var, call.default_val)
       IN  call' = [call EXCEPT !.returned = TRUE, !.result = r.ret,
                                !.logged = call.logged \o r.log]
    /\ UNCHANGED <<network, inputs, pc, locals, exc, effects, log, signals, process,
                   waiting, status>>

SpecConfig == InitConfig /\ [][CallReadConfig]_vars

\* ------------------------------------------------------------------- run
\* signal.SIGTERM
SIGTERM == 15
\* the exit status of a Python process that ends on an uncaught exception
UncaughtExitStatus == 1
\* the exit status the operating system reports for sys.exit(code)
ExitStatus(code) == code % 256

Logged(msg, arg) == Append(log, [msg |-> msg, arg |-> arg])

\* a mutant: the sentinel is compared without upper()
IsLocalCaseSensitive == repository_path = LOCAL_REPOSITORY

\* repository_path.upper() == "LOCAL"
IsLocal == Upper(repository_path) = LOCAL_REPOSITORY

\* an exception leaves run where no with block is open
Raise(e) ==
    /\ pc' = "done"
    /\ exc' = e
    /\ status' = <<UncaughtExitStatus>>

\* a mutant: the SIGINT handler is installed on entry to run
RunStartInstallsHandler ==
    /\ pc = "start"
    /\ sigint_handler' = "handler"
    /\ IF ~IsLocal
       THEN /\ log' = Logged("Downloading executables ...", <<>>)
            /\ pc' = "download"
       ELSE /\ log' = Logged("Local repository, skip download ...", <<>>)
            /\ pc' = "parse"
    /\ UNCHANGED <<call, network, inputs, locals, exc, effects, interrupts,
                   sigint_waiting, sigint_running, process, waiting, status>>

\* lines 57-61: the choice between download and the local repository
RunStart ==
    /\ pc = "start"
    /\ IF ~IsLocal
       THEN /\ log' = Logged("Downloading executables ...", <<>>)
            /\ pc' = "download"
       ELSE /\ log' = Logged("Local repository, skip download ...", <<>>)
            /\ pc' = "parse"
    /\ UNCHANGED <<call, network, inputs, locals, exc, effects, signals, process,
                   waiting, status>>

\* a mutant: the artifact is copied into the resolved exe_path
exe_local_path_in_exe_path(name) == exe_path \o name

\* exe_local_path = DEFAULT_EXE_FOLDER + exe_name
exe_local_path(name) == DEFAULT_EXE_FOLDER \o name

\* exe_s3_path = repository_path + package_name
exe_s3_path == repository_path \o package_name

\* a mutant: a failed copy is swallowed and run goes on
DownloadExecutablesIgnoreFailure ==
    /\ pc = "download"
    /\ \E region_ok \in BOOLEAN, copy_ok \in BOOLEAN :
          LET parsed == _parse_package_name(package_name)
          IN  IF ~region_ok
              THEN Raise("ValueError") /\ UNCHANGED copies
              ELSE IF parsed.exc # ""
              THEN Raise(parsed.exc) /\ UNCHANGED copies
              ELSE /\ copies' = Append(copies,
                                       [src |-> exe_s3_path,
                                        dst |-> exe_local_path(parsed.value[2]),
                                        ok |-> copy_ok])
                   /\ IF copy_ok
                      THEN pc' = "parse" /\ UNCHANGED <<exc, status>>
                      ELSE pc' = "parse" /\ UNCHANGED <<exc, status>>
    /\ UNCHANGED <<call, network, inputs, locals, chmods, popens, log, signals,
                   process, waiting>>

\* a mutant: a failed copy is tried again
DownloadExecutablesRetry ==
    /\ pc = "download"
    /\ \E region_ok \in BOOLEAN, copy_ok \in BOOLEAN :
          LET parsed == _parse_package_name(package_name)
          IN  IF ~region_ok
              THEN Raise("ValueError") /\ UNCHANGED copies
              ELSE IF parsed.exc # ""
              THEN Raise(parsed.exc) /\ UNCHANGED copies
              ELSE /\ copies' = Append(copies,
                                       [src |-> exe_s3_path,
                                        dst |-> exe_local_path(parsed.value[2]),
                                        ok |-> copy_ok])
                   /\ IF copy_ok
                      THEN pc' = "parse" /\ UNCHANGED <<exc, status>>
                      ELSE pc' = "download" /\ UNCHANGED <<exc, status>>
    /\ UNCHANGED <<call, network, inputs, locals, chmods, popens, log, signals,
                   process, waiting>>

\* line 59, _download_executables: S3Path(repository_path).region may fail,
\* then the package name is parsed, then the copy is requested and may fail
DownloadExecutables ==
    /\ pc = "download"
    /\ \E region_ok \in BOOLEAN, copy_ok \in BOOLEAN :
          LET parsed == _parse_package_name(package_name)
          IN  IF ~region_ok
              THEN Raise("ValueError") /\ UNCHANGED copies
              ELSE IF parsed.exc # ""
              THEN Raise(parsed.exc) /\ UNCHANGED copies
              ELSE /\ copies' = Append(copies,
                                       [src |-> exe_s3_path,
                                        dst |-> exe_local_path(parsed.value[2]),
                                        ok |-> copy_ok])
                   /\ IF copy_ok
                      THEN pc' = "parse" /\ UNCHANGED <<exc, status>>
                      ELSE Raise("CopyError")
    /\ UNCHANGED <<call, network, inputs, locals, chmods, popens, log, signals,
                   process, waiting>>

\* f"chmod +x {exe_path}/{exe_name}"
ChmodCommand(name) ==
    <<"c","h","m","o","d"," ","+","x"," ">> \o exe_path \o <<Slash>> \o name

\* a mutant: chmod is run with check=True, so that its failure raises
GrantPermissionChecked ==
    /\ pc = "parse"
    /\ LET parsed == _parse_package_name(package_name)
       IN  IF parsed.exc # ""
           THEN /\ Raise(parsed.exc)
                /\ UNCHANGED <<exe_name, chmods>>
           ELSE /\ exe_name' = parsed.value[2]
                /\ \E rc \in {0, 1} :
                      /\ chmods' = Append(chmods,
                                          [cmd |-> ChmodCommand(parsed.value[2]),
                                           returncode |-> rc])
                      /\ IF rc = 0
                         THEN pc' = "normalize" /\ UNCHANGED <<exc, status>>
                         ELSE Raise("CalledProcessError")
    /\ UNCHANGED <<call, network, inputs, cmd, return_code, copies, popens, log,
                   signals, process, waiting>>

\* lines 64-65: exe_name is parsed out of package_name and chmod is run in
\* a shell; the exit status of chmod is not looked at
GrantPermission ==
    /\ pc = "parse"
    /\ LET parsed == _parse_package_name(package_name)
       IN  IF parsed.exc # ""
           THEN /\ Raise(parsed.exc)
                /\ UNCHANGED <<exe_name, chmods>>
           ELSE /\ exe_name' = parsed.value[2]
                /\ \E rc \in {0, 1} :
                      chmods' = Append(chmods,
                                       [cmd |-> ChmodCommand(parsed.value[2]),
                                        returncode |-> rc])
                /\ pc' = "normalize"
                /\ UNCHANGED <<exc, status>>
    /\ UNCHANGED <<call, network, inputs, cmd, return_code, copies, popens, log,
                   signals, process, waiting>>

\* a mutant: exe_path and cmd are joined as path components
NormalizeCmdJoin ==
    /\ pc = "normalize"
    /\ cmd' = IF IsLocal THEN exe_path \o <<Slash>> \o cmd ELSE cmd
    /\ log' = Logged("Running cmd", cmd')
    /\ pc' = "signal"
    /\ UNCHANGED <<call, network, inputs, exe_name, return_code, exc, effects,
                   signals, process, waiting, status>>

\* lines 69-73: cmd = exe_path + cmd in LOCAL mode, then the command is logged
NormalizeCmd ==
    /\ pc = "normalize"
    /\ cmd' = IF IsLocal THEN exe_path \o cmd ELSE cmd
    /\ log' = Logged("Running cmd", cmd')
    /\ pc' = "signal"
    /\ UNCHANGED <<call, network, inputs, exe_name, return_code, exc, effects,
                   signals, process, waiting, status>>

\* line 74: signal.signal(signal.SIGINT, handler)
InstallHandler ==
    /\ pc = "signal"
    /\ sigint_handler' = "handler"
    /\ pc' = "popen"
    /\ UNCHANGED <<call, network, inputs, locals, exc, effects, log, interrupts,
                   sigint_waiting, sigint_running, process, waiting, status>>

\* line 81: the command is started in a shell, in a session and process group
\* of its own; it may start further processes in that group
Popen ==
    /\ pc = "popen"
    /\ popens' = Append(popens, cmd)
    /\ child' = "running"
    /\ group_others' \in BOOLEAN
    /\ pc' = "net_start"
    /\ UNCHANGED <<call, network, inputs, locals, exc, copies, chmods, log, signals,
                   child_code, term_child, term_group, waiting, status>>

\* line 82: net_start = psutil.net_io_counters()
NetStart ==
    /\ pc = "net_start"
    /\ net_start' = net
    /\ pc' = "communicate"
    /\ UNCHANGED <<call, net, net_end, inputs, locals, exc, effects, log, signals, process,
                   waiting, status>>

\* line 84: a second passes while proc.communicate waits for the child
Tick ==
    /\ pc = "communicate"
    /\ child = "running"
    /\ timeout # IntNone
    /\ elapsed < timeout[1]
    /\ elapsed' = elapsed + 1
    /\ UNCHANGED <<call, network, inputs, pc, locals, exc, effects, log, signals,
                   process, timed_out, status>>

\* line 84: proc.communicate returns once the child has exited, and reaps it
CommunicateReturns ==
    /\ pc = "communicate"
    /\ child = "zombie"
    /\ child' = "reaped"
    /\ pc' = "wait"
    /\ UNCHANGED <<call, network, inputs, locals, exc, effects, log, signals,
                   child_code, group_others, term_child, term_group, waiting,
                   status>>

\* lines 84-85: the child is still running when the timeout is over;
\* proc.communicate raises TimeoutExpired, which the except clause catches
TimeoutExpired ==
    /\ pc = "communicate"
    /\ child = "running"
    /\ timeout # IntNone
    /\ elapsed >= timeout[1]
    /\ exc' = "TimeoutExpired"
    /\ timed_out' = TRUE
    /\ pc' = "terminate"
    /\ UNCHANGED <<call, network, inputs, locals, effects, log, signals, process,
                   elapsed, status>>

\* line 86: proc.terminate() sends SIGTERM to a child that has not exited.
\* For a child that has exited, Python 3.9 and later poll first, which reaps
\* the child, and send nothing; earlier versions send the signal to the
\* zombie, which stays unreaped
Terminate ==
    /\ pc = "terminate"
    /\ IF child = "running"
       THEN term_child' = TRUE /\ UNCHANGED child
       ELSE \/ child' = "reaped" /\ UNCHANGED term_child
            \/ term_child' = TRUE /\ UNCHANGED child
    /\ pc' = "killpg"
    /\ UNCHANGED <<call, network, inputs, locals, exc, effects, log, signals,
                   child_code, group_others, term_group, waiting, status>>

\* the process group proc.pid still has a member (a zombie is one)
GroupExists == child \in {"running", "zombie"} \/ group_others

\* line 87: os.killpg(proc.pid, signal.SIGTERM); it raises
\* ProcessLookupError when the group has no member left
Killpg ==
    /\ pc = "killpg"
    /\ IF GroupExists
       THEN /\ term_group' = TRUE
            /\ pc' = "reraise"
            /\ UNCHANGED exc
       ELSE /\ exc' = "ProcessLookupError"
            /\ pc' = "with_exit"
            /\ UNCHANGED term_group
    /\ UNCHANGED <<call, network, inputs, locals, effects, log, signals, child,
                   child_code, group_others, term_child, waiting, status>>

\* a mutant: the except clause ends without raising and run returns
ReraiseSwallowed ==
    /\ pc = "reraise"
    /\ exc' = ""
    /\ pc' = "with_exit"
    /\ UNCHANGED <<call, network, inputs, locals, effects, log, signals,
                   process, waiting, status>>

\* line 88: raise e
Reraise ==
    /\ pc = "reraise"
    /\ pc' = "with_exit"
    /\ UNCHANGED <<call, network, inputs, locals, exc, effects, log, signals, process,
                   waiting, status>>

\* line 90: return_code = proc.wait(); the child was reaped by communicate
Wait ==
    /\ pc = "wait"
    /\ return_code' = child_code
    /\ pc' = "net_end"
    /\ UNCHANGED <<call, network, inputs, cmd, exe_name, exc, effects, log, signals,
                   process, waiting, status>>

\* a mutant: the usage is computed as start minus end
NetEndReversed ==
    /\ pc = "net_end"
    /\ net_end' = net
    /\ log' = Logged("Net usage",
                     <<net_start[1] - net_end'[1], net_start[2] - net_end'[2]>>)
    /\ pc' = "exit_check"
    /\ UNCHANGED <<call, net, net_start, inputs, locals, exc, effects, signals,
                   process, waiting, status>>

\* lines 91-94: net_end is sampled and the usage is logged
NetEnd ==
    /\ pc = "net_end"
    /\ net_end' = net
    /\ log' = Logged("Net usage",
                     <<net_end'[1] - net_start[1], net_end'[2] - net_start[2]>>)
    /\ pc' = "exit_check"
    /\ UNCHANGED <<call, net, net_start, inputs, locals, exc, effects, signals, process,
                   waiting, status>>

\* a mutant: every failure of the child is reported as exit status 1
ExitCheckFlat ==
    /\ pc = "exit_check"
    /\ IF return_code[1] # 0
       THEN /\ log' = Logged("Subprocess returned non-zero return code",
                             return_code)
            /\ exc' = "SystemExit"
            /\ return_code' = <<1>>
       ELSE UNCHANGED <<log, exc, return_code>>
    /\ pc' = "with_exit"
    /\ UNCHANGED <<call, network, inputs, cmd, exe_name, effects, signals, process,
                   waiting, status>>

\* lines 95-97: sys.exit(return_code) when the child's return code is not 0
ExitCheck ==
    /\ pc = "exit_check"
    /\ IF return_code[1] # 0
       THEN /\ log' = Logged("Subprocess returned non-zero return code",
                             return_code)
            /\ exc' = "SystemExit"
       ELSE UNCHANGED <<log, exc>>
    /\ pc' = "with_exit"
    /\ UNCHANGED <<call, network, inputs, locals, effects, signals, process, waiting,
                   status>>

\* line 81, the end of the with block: Popen.__exit__ waits for the child
\* with no timeout, then run returns or the exception goes on
WithExit ==
    /\ pc = "with_exit"
    /\ child \in {"zombie", "reaped"}
    /\ child' = "reaped"
    /\ pc' = "done"
    /\ status' = IF exc = "" THEN <<0>>
                 ELSE IF exc = "SystemExit" THEN <<ExitStatus(return_code[1])>>
                 ELSE <<UncaughtExitStatus>>
    /\ UNCHANGED <<call, network, inputs, locals, exc, effects, log, signals,
                   child_code, group_others, term_child, term_group, waiting>>

\* lines 44-45 and 74: SIGINT reaches the launcher.  Before line 74 Python's
\* own handler raises KeyboardInterrupt; after it handler raises
\* InterruptedError in whatever statement is executing: the except clause of
\* line 85 catches it only inside proc.communicate, anywhere else in the
\* with block it goes to Popen.__exit__, and inside Popen.__exit__ it ends
\* the wait for the child
Sigint ==
    /\ pc \notin {"idle", "done"}
    /\ interrupts < MaxInterrupts
    /\ interrupts' = interrupts + 1
    /\ UNCHANGED sigint_handler
    /\ IF sigint_handler # "handler"
       THEN /\ Raise("KeyboardInterrupt")
            /\ UNCHANGED <<sigint_waiting, sigint_running>>
       ELSE /\ exc' = "InterruptedError"
            /\ sigint_waiting' = (sigint_waiting \/ pc = "communicate")
            /\ sigint_running' = (sigint_running \/ child = "running")
            /\ IF pc = "communicate"
               THEN pc' = "terminate" /\ UNCHANGED status
               ELSE IF pc \in {"popen", "with_exit"}
               THEN pc' = "done" /\ status' = <<UncaughtExitStatus>>
               ELSE pc' = "with_exit" /\ UNCHANGED status
    /\ UNCHANGED <<call, network, inputs, locals, effects, log, process, waiting>>

\* the child exits by itself
ChildExits ==
    /\ child = "running"
    /\ child' = "zombie"
    /\ \E k \in ExitCodes : child_code' = <<k>>
    /\ UNCHANGED <<call, network, inputs, pc, locals, exc, effects, log, signals,
                   group_others, term_child, term_group, waiting, status>>

\* the child dies of a SIGTERM it was sent; a child may also ignore it
ChildTerminated ==
    /\ child = "running"
    /\ term_child \/ term_group
    /\ child' = "zombie"
    /\ child_code' = <<-SIGTERM>>
    /\ UNCHANGED <<call, network, inputs, pc, locals, exc, effects, log, signals,
                   group_others, term_child, term_group, waiting, status>>

\* the other processes of the child's group end
GroupOthersExit ==
    /\ group_others
    /\ group_others' = FALSE
    /\ UNCHANGED <<call, network, inputs, pc, locals, exc, effects, log, signals,
                   child, child_code, term_child, term_group, waiting, status>>

Next ==
    \/ RunStart
    \/ DownloadExecutables
    \/ GrantPermission
    \/ NormalizeCmd
    \/ InstallHandler
    \/ Popen
    \/ NetStart
    \/ Tick
    \/ CommunicateReturns
    \/ TimeoutExpired
    \/ Terminate
    \/ Killpg
    \/ Reraise
    \/ Wait
    \/ NetEnd
    \/ ExitCheck
    \/ WithExit
    \/ Sigint
    \/ ChildExits
    \/ ChildTerminated
    \/ GroupOthersExit

Spec == Init /\ [][Next]_vars

\* a step of the launcher itself: a statement of run, as opposed to a step of
\* the child, of its process group or of whoever sends SIGINT
LauncherStep ==
    \/ RunStart
    \/ DownloadExecutables
    \/ GrantPermission
    \/ NormalizeCmd
    \/ InstallHandler
    \/ Popen
    \/ NetStart
    \/ CommunicateReturns
    \/ TimeoutExpired
    \/ Terminate
    \/ Killpg
    \/ Reraise
    \/ Wait
    \/ NetEnd
    \/ ExitCheck
    \/ WithExit

\* --------------------------------------- run while the system has traffic
\* lines 82 and 91, psutil.net_io_counters(): the system-wide counters only
\* grow; a byte is sent or received by some process of the system
NetTraffic ==
    /\ pc \notin {"idle", "done"}
    /\ net[1] + net[2] < MaxNetBytes
    /\ \/ net' = <<net[1] + 1, net[2]>>
       \/ net' = <<net[1], net[2] + 1>>
    /\ UNCHANGED <<call, inputs, pc, locals, exc, effects, log, signals,
                   process, waiting, net_start, net_end, status>>

InitNet ==
    /\ call = [fn |-> "run"]
    /\ \E rp \in {LOCAL_REPOSITORY, RepoExample}, t \in Timeouts :
          RunState(rp, DEFAULT_EXE_FOLDER, TeamAToolB, MyProg, t, "start")

NextNet == Next \/ NetTraffic

SpecNet == InitNet /\ [][NextNet]_vars

\* ------------------------------------------------------------------ claims
\* the positions of "/" in s
Slashes(s) == {i \in 1..Len(s) : s[i] = "/"}
FirstSlash(s) == CHOOSE i \in Slashes(s) : \A j \in Slashes(s) : i <= j
\* the launcher has finished
Finished == pc = "done"
\* the launcher has finished with a non-zero exit status
Aborted == pc = "done" /\ exc # "" /\ status # IntNone /\ status[1] # 0

\* C1: when the child completes and neither a timeout nor an interrupt
\* occurred, the launcher's exit status is the child's: run returns normally
\* (status 0) for child status 0 and calls sys.exit(k) for child status k # 0.
C1_ExitPropagation ==
    (Finished /\ popens # <<>> /\ ~timed_out /\ interrupts = 0) =>
        /\ child_code # IntNone
        /\ status = child_code
        /\ (child_code[1] = 0) => (exc = "")
        /\ (child_code[1] # 0) => (exc = "SystemExit" /\ return_code = child_code)

C1_Witness ==
    /\ Finished /\ ~timed_out /\ interrupts = 0
    /\ child_code = <<7>> /\ status = <<7>> /\ exc = "SystemExit"

\* C2 (as claimed): when the timeout expires with the child still running,
\* SIGTERM is sent to the child and to its process group, the invocation ends
\* with a non-zero status, and the child is not running once the launcher
\* has finished.
C2_TimeoutTerminates ==
    (Finished /\ timed_out) =>
        /\ term_child
        /\ term_group
        /\ Aborted
        /\ child # "running"

\* C3 (as claimed): when SIGINT arrives inside proc.communicate the abort
\* path of a timeout is taken: SIGTERM is sent to the child and to its
\* process group and the invocation ends with a non-zero status, also when
\* no timeout was configured.
C3_InterruptTerminates ==
    (Finished /\ sigint_waiting) =>
        /\ term_child
        /\ term_group
        /\ Aborted

\* C4: _read_config returns the argument when it is non-empty, else the value
\* of the environment variable when that is non-empty, else the default; the
\* tier is decided by the presence of the higher tiers alone, and exactly one
\* line is logged, naming the key and the chosen source.
C4_ConfigPrecedence ==
    (call.fn = "_read_config" /\ call.returned) =>
        LET arg_present == call.argument \notin {None, <<>>}
            env_set == call.environ[call.env_var] \notin {None, <<>>}
            source == call.logged[1].source
        IN  /\ Len(call.logged) = 1
            /\ call.logged[1].key = call.config_name
            /\ arg_present =>
                  call.result = call.argument /\ source = "program arguments"
            /\ (~arg_present /\ env_set) =>
                  /\ call.result = call.environ[call.env_var]
                  /\ source = "environment variables"
            /\ (~arg_present /\ ~env_set) =>
                  call.result = call.default_val /\ source = "default value"

C4_Witness ==
    /\ call.fn = "_read_config" /\ call.returned
    /\ call.argument = <<>>
    /\ call.environ[call.env_var] = <<"E">>
    /\ call.default_val = <<"D">>
    /\ call.result = <<"E">>

\* C5: _parse_package_name returns exactly (team, exe) for every name
\* team/exe with one "/" and non-empty team and exe, and fails with an error
\* for every name without "/".
C5_ParseTeamExe ==
    (call.fn = "_parse_package_name" /\ call.returned) =>
        LET s == call.package_name
        IN  /\ (Cardinality(Slashes(s)) = 1 /\ 1 \notin Slashes(s)
                                            /\ Len(s) \notin Slashes(s)) =>
                  /\ call.result.exc = ""
                  /\ call.result.value =
                        <<SubSeq(s, 1, FirstSlash(s) - 1),
                          SubSeq(s, FirstSlash(s) + 1, Len(s))>>
            /\ (Slashes(s) = {}) =>
                  call.result.exc = "IndexError" /\ call.result.value = <<>>

C5_Witness ==
    /\ call.fn = "_parse_package_name" /\ call.returned
    /\ call.package_name = <<"a","b","/","c">>
    /\ call.result = [exc |-> "", value |-> <<<<"a","b">>, <<"c">>>>]

\* C6 (as claimed): for every name with at least one "/", team is what
\* precedes the first "/" and exe_name is all that follows the first "/".
C6_SplitsOnFirstSlashOnly ==
    (call.fn = "_parse_package_name" /\ call.returned
        /\ Slashes(call.package_name) # {}) =>
        LET s == call.package_name
        IN  /\ call.result.exc = ""
            /\ call.result.value =
                  <<SubSeq(s, 1, FirstSlash(s) - 1),
                    SubSeq(s, FirstSlash(s) + 1, Len(s))>>

\* C6 (amended): for every name with at least one "/", team is what precedes
\* the first "/" and exe_name is what lies between the first "/" and the
\* second "/", or the end of the name when there is no second "/".
C6_SplitsOnEverySlash ==
    (call.fn = "_parse_package_name" /\ call.returned
        /\ Slashes(call.package_name) # {}) =>
        LET s == call.package_name
            first == FirstSlash(s)
            later == {i \in Slashes(s) : i > first}
            stop == IF later = {} THEN Len(s) + 1
                    ELSE CHOOSE i \in later : \A j \in later : i <= j
        IN  /\ call.result.exc = ""
            /\ call.result.value[1] = SubSeq(s, 1, first - 1)
            /\ call.result.value[2] = SubSeq(s, first + 1, stop - 1)

C6_Witness ==
    /\ call.fn = "_parse_package_name" /\ call.returned
    /\ call.package_name = <<"a","/","b","/","c">>
    /\ call.result.value = <<<<"a">>, <<"b">>>>

\* the scenario of C7: repository_path "LOCAL", exe_path "/opt/bin",
\* cmd "./myprog --x", and the child has been launched
C7_Scenario ==
    /\ repository_path = <<"L","O","C","A","L">>
    /\ exe_path = <<"/","o","p","t","/","b","i","n">>
    /\ cmd_arg = <<".","/","m","y","p","r","o","g"," ","-","-","x">>
    /\ popens # <<>>

\* C7 (as claimed): in the scenario no download is made and the command
\* launched is exactly "/opt/bin/./myprog --x".
C7_LocalCommandWithSeparator ==
    C7_Scenario =>
        /\ copies = <<>>
        /\ popens = << <<"/","o","p","t","/","b","i","n","/",".","/","m","y",
                         "p","r","o","g"," ","-","-","x">> >>

\* C7 (amended): in the scenario the download step is not entered and the
\* command launched is exactly "/opt/bin./myprog --x": exe_path immediately
\* followed by cmd, no separator added.
C7_LocalCommandConcatenated ==
    /\ IsLocal => (pc # "download" /\ copies = <<>>)
    /\ C7_Scenario =>
          popens = << <<"/","o","p","t","/","b","i","n",".","/","m","y","p",
                        "r","o","g"," ","-","-","x">> >>

C7_Witness ==
    /\ C7_Scenario
    /\ Finished
    /\ copies = <<>>
    /\ cmd = exe_path \o cmd_arg

\* C8: every copy that _download_executables requests for a package name
\* team/exe goes from repository_path + package_name to
\* "/root/one_docker/package/" + exe, whatever exe_path is.
C8_DownloadDescriptor ==
    \A i \in 1..Len(copies) :
        /\ Cardinality(Slashes(package_name)) = 1 =>
              /\ copies[i].src = repository_path \o package_name
              /\ copies[i].dst =
                    <<"/","r","o","o","t","/","o","n","e","_","d","o","c","k",
                      "e","r","/","p","a","c","k","a","g","e","/">>
                    \o SubSeq(package_name, FirstSlash(package_name) + 1,
                              Len(package_name))
        /\ (repository_path = RepoExample /\ package_name = TeamAToolB) =>
              /\ copies[i].src =
                    <<"h","t","t","p","s",":","/","/","r","e","p","o",".","e",
                      "x","a","m","p","l","e",".","c","o","m","/","t","e","a",
                      "m","A","/","t","o","o","l","B">>
              /\ copies[i].dst =
                    <<"/","r","o","o","t","/","o","n","e","_","d","o","c","k",
                      "e","r","/","p","a","c","k","a","g","e","/","t","o","o",
                      "l","B">>

C8_Witness ==
    /\ repository_path = RepoExample
    /\ package_name = TeamAToolB
    /\ exe_path = OptBin
    /\ Len(copies) = 1
    /\ copies[1].dst = DEFAULT_EXE_FOLDER \o <<"t","o","o","l","B">>

\* chmod was run and failed
ChmodFailed == \E i \in 1..Len(chmods) : chmods[i].returncode # 0

\* C9 (as claimed): when granting execute permission fails, the invocation
\* aborts with a non-zero status and the child command is not launched.
C9_PermissionFailureAborts ==
    ChmodFailed => (popens = <<>> /\ (Finished => Aborted))

\* C9 (amended): when granting execute permission fails, the failure is not
\* looked at: the chmod step, whatever its exit status, raises nothing and
\* hands over to command normalisation, and run goes on to launch the child
\* as it does after a successful chmod.
C9_PermissionFailureIgnored ==
    [][(pc = "parse" /\ chmods' # chmods) =>
          (pc' = "normalize" /\ exc' = "" /\ status' = IntNone)]_vars

C9_Witness ==
    /\ ChmodFailed
    /\ popens # <<>>
    /\ Finished
    /\ status = <<0>>

\* C10: for a package name without "/", in LOCAL and in non-LOCAL mode, run
\* ends with an error before any copy is requested, before chmod is run and
\* before a child is launched.
C10_MalformedNameAborts ==
    (Slashes(package_name) = {}) =>
        /\ copies = <<>>
        /\ chmods = <<>>
        /\ popens = <<>>
        /\ child = "none"
        /\ pc \in {"idle", "start", "download", "parse", "done"}
        /\ Finished => Aborted

C10_Witness ==
    /\ Slashes(package_name) = {}
    /\ ~IsLocal
    /\ Finished
    /\ exc = "IndexError"

\* repository_path is "LOCAL" in some mix of upper and lower case
LocalMode ==
    /\ Len(repository_path) = 5
    /\ \A i \in 1..5 :
          repository_path[i] \in {<<"L","O","C","A","L">>[i],
                                  <<"l","o","c","a","l">>[i]}
\* the usage lines that were logged
NetUsageLines == {i \in 1..Len(log) : log[i].msg = "Net usage"}

\* C11: the logged bytes-sent and bytes-received are the counters sampled
\* after the child has exited minus the counters sampled when the wait
\* starts; the first sample precedes the whole wait, the second follows it,
\* and since the counters only grow no logged value is negative.
C11_NetUsageDelta ==
    /\ [](/\ pc \in {"communicate", "terminate", "wait", "net_end"} =>
                (net_start # <<>> /\ net_start[1] <= net[1]
                                  /\ net_start[2] <= net[2])
          /\ (net_end # <<>>) => child = "reaped"
          /\ \A i \in NetUsageLines :
                /\ net_start # <<>> /\ net_end # <<>>
                /\ log[i].arg = <<net_end[1] - net_start[1],
                                  net_end[2] - net_start[2]>>
                /\ log[i].arg[1] >= 0 /\ log[i].arg[2] >= 0
          /\ Cardinality(NetUsageLines) <= 1)
    /\ [][/\ net_start' # net_start =>
                (pc = "net_start" /\ pc' = "communicate" /\ net_start' = net)
          /\ net_end' # net_end =>
                (pc = "net_end" /\ net_end' = net
                                /\ NetUsageLines' # NetUsageLines)]_vars

C11_Witness ==
    /\ Finished
    /\ status = <<0>>
    /\ net_start = <<1, 0>>
    /\ net_end = <<2, 1>>
    /\ \E i \in NetUsageLines : log[i].arg = <<1, 1>>

\* C12: the download, when there is one, is complete before chmod is run;
\* chmod has been run before the SIGINT handler is installed; the handler is
\* installed before the child is launched; it is not installed before (a
\* SIGINT during download or chmod raises KeyboardInterrupt, not
\* InterruptedError) and once installed it stays installed.
C12_StepOrdering ==
    /\ [](/\ (chmods # <<>> /\ ~LocalMode) =>
                (Len(copies) = 1 /\ copies[1].ok)
          /\ (sigint_handler = "handler") => chmods # <<>>
          /\ (popens # <<>>) => sigint_handler = "handler"
          /\ pc \in {"start", "download", "parse", "normalize", "signal"} =>
                sigint_handler # "handler"
          /\ (exc = "InterruptedError") =>
                (sigint_handler = "handler" /\ chmods # <<>>))
    /\ [][/\ (sigint_handler = "handler") => (sigint_handler' = "handler")
          /\ (interrupts' > interrupts
                /\ pc \in {"start", "download", "parse", "normalize"}) =>
                exc' = "KeyboardInterrupt"]_vars

C12_Witness ==
    /\ Finished
    /\ ~LocalMode
    /\ Len(copies) = 1 /\ Len(chmods) = 1 /\ Len(popens) = 1
    /\ sigint_handler = "handler"
    /\ status = <<0>>

\* the condition that aborted the wait in proc.communicate
Trigger == IF timed_out THEN "TimeoutExpired" ELSE "InterruptedError"
WaitAborted == timed_out \/ sigint_waiting

\* C13 (as claimed), in the runs where no SIGINT arrives other than the one
\* that aborted the wait: when the wait is aborted by a timeout or by an
\* interrupt, SIGTERM is sent to the child's process group and the error
\* that leaves run is the condition that aborted the wait, also when the
\* child exits by itself during the abort path.
C13_AbortPathReraisesTrigger ==
    (Finished /\ WaitAborted
        /\ interrupts = (IF sigint_waiting THEN 1 ELSE 0)) =>
        /\ term_group
        /\ exc = Trigger

\* C14 (as claimed), in the runs without SIGINT: with a timeout configured,
\* once the timeout has expired the launcher never waits for the child
\* again: until run is left it can always take its next step, whatever the
\* child does, also a child that does not exit on SIGTERM.
C14_BoundedBlocking ==
    (timeout # IntNone /\ timed_out /\ interrupts = 0 /\ ~Finished) =>
        ENABLED LauncherStep

\* C15: the download step is entered only when repository_path is not
\* "LOCAL" in any mix of case, and run gets past it only through the
\* download; the command launched is exe_path + cmd in LOCAL mode and cmd as
\* given otherwise; in both modes chmod +x was run on exe_path/exe_name.
C15_ModeConsistency ==
    /\ LocalMode =>
          /\ pc # "download"
          /\ copies = <<>>
          /\ \A i \in 1..Len(log) : log[i].msg # "Downloading executables ..."
    /\ (~LocalMode /\ (pc = "parse" \/ chmods # <<>>)) =>
          /\ Len(copies) = 1
          /\ \E i \in 1..Len(log) : log[i].msg = "Downloading executables ..."
    /\ (popens # <<>>) =>
          /\ popens[1] = IF LocalMode THEN exe_path \o cmd_arg ELSE cmd_arg
          /\ Len(chmods) = 1
          /\ chmods[1].cmd = <<"c","h","m","o","d"," ","+","x"," ">>
                             \o exe_path \o <<"/">> \o exe_name

C15_Witness ==
    /\ repository_path = <<"l","o","c","a","l">>
    /\ Finished
    /\ copies = <<>>
    /\ Len(chmods) = 1
    /\ popens = <<exe_path \o cmd_arg>>

\* the region could not be derived or the copy failed
DownloadFailed ==
    exc = "ValueError" \/ \E i \in 1..Len(copies) : ~copies[i].ok

\* C16: in non-LOCAL mode, when deriving the region or the copy fails, the
\* error leaves run and neither chmod nor the launch of the child happens.
C16_DownloadFailureAborts ==
    DownloadFailed =>
        /\ ~LocalMode
        /\ Aborted
        /\ exc \in {"ValueError", "CopyError"}
        /\ chmods = <<>>
        /\ popens = <<>>
        /\ child = "none"
        /\ sigint_handler # "handler"

C16_Witness ==
    /\ Finished
    /\ exc = "CopyError"
    /\ Len(copies) = 1
    /\ ~copies[1].ok
    /\ chmods = <<>>

\* C17: an invocation that launched the child ends either with the child's
\* exit code as its status, the usage having been logged, or with an error;
\* when the wait was aborted by a timeout or an interrupt it ends with an
\* error, no usage line is logged and no exit code of the child is taken.
C17_NoPartialResult ==
    (Finished /\ popens # <<>>) =>
        /\ \/ /\ exc \in {"", "SystemExit"}
              /\ child = "reaped"
              /\ return_code = child_code
              /\ status = child_code
              /\ Cardinality(NetUsageLines) = 1
           \/ /\ exc \notin {"", "SystemExit"}
              /\ status # IntNone /\ status[1] # 0
        /\ WaitAborted =>
              /\ exc \notin {"", "SystemExit"}
              /\ NetUsageLines = {}
              /\ return_code = IntNone

C17_Witness ==
    /\ Finished
    /\ timed_out
    /\ exc = "TimeoutExpired"
    /\ child_code = <<-15>>
    /\ status = <<1>>
    /\ NetUsageLines = {}

\* C18: in every invocation, whatever fails, the copy is requested at most
\* once, chmod is run at most once and the child is launched at most once.
C18_NoRetries ==
    /\ Len(copies) <= 1
    /\ Len(chmods) <= 1
    /\ Len(popens) <= 1

C18_Witness ==
    /\ Finished
    /\ timed_out
    /\ interrupts > 0
    /\ Len(copies) = 1
    /\ Len(popens) = 1

\* C19 (as claimed): a SIGINT that arrives once the handler is installed and
\* while the child is running leads to SIGTERM being sent to the child's
\* process group before the launcher finishes.
C19_InterruptAlwaysKillsGroup ==
    (Finished /\ sigint_running) => term_group

\* C20 (as claimed): the launcher never leaves run while the child it
\* launched is still running.
C20_NeverLeavesRunningChild ==
    Finished => child # "running"

====
